---- MODULE Spec2Model ----
(***************************************************************************)
(* Whack-a-mole naval battle (src/pirate-game+ui.py): the HardwareThread   *)
(* round controller, the event queue, the shared battle model (ENEMY_FLEET *)
(* and PLAYER_FORTRESS) and the event-consuming part of the main loop.     *)
(*                                                                         *)
(* Units.  Times are in tenths of a second (GAME_DURATION 30.0 s = 300).   *)
(* Fortress health and score are in half points (health 10 = 20, a hit is  *)
(* worth 2, a miss costs 1, a heal restores 1, enemy damage takes 2).      *)
(* Light indices are 0..8 as in the source; ships are numbered 1..5 in     *)
(* fleet order.  None is written as -1 for active_mole_light_index and 0   *)
(* for current_ship.                                                       *)
(*                                                                         *)
(* Hardware.  is_available is set last in HardwareThread.__init__; dev_open *)
(* says whether self.dev was assigned before the set-up failed (the strip  *)
(* call or InputDevice raising leaves it unassigned, a later failure such  *)
(* as the fcntl call leaves a device that can be read with is_available    *)
(* False).                                                                 *)
(*                                                                         *)
(* Threads.  The controller (HardwareThread.run) and the main thread run   *)
(* concurrently with no lock.  Every read or write of a ship's             *)
(* current_health / is_destroyed and of PLAYER_FORTRESS['health'] is a     *)
(* step of its own, so that every interleaving of the two threads on the   *)
(* shared battle model is a behaviour of the model.                        *)
(***************************************************************************)
EXTENDS Integers, Sequences, FiniteSets, TLC

\* ------------------------------------------------------------ constants
NUM_LIGHTS == 9
PIXELS_PER_BUTTON == 4
NUM_PIXELS == NUM_LIGHTS * PIXELS_PER_BUTTON
GAME_DURATION == 300
MOLE_DURATION == 10
PENALTY_FLASH_DURATION == 2
COUNTDOWN_FLASH_DURATION == 5
KEY_1 == 1
KEY_5 == 5
\* a key code that is not in KEY_TO_LIGHT_INDEX
KEY_OTHER == 30
keys_needed == 2
PLAYER_MAX_HEALTH == 20
HIT_SCORE == 2
MISS_PENALTY == 1
HEAL_AMOUNT == 1
ENEMY_DAMAGE == 2

\* SHIP_DATA max_health column, in fleet order
SHIP_DATA == <<5, 10, 15, 15, 5>>
NumShips == Len(SHIP_DATA)
Ships == 1..NumShips

\* KEY_TO_LIGHT_INDEX: KEY_1..KEY_9 -> 0..8
KEY_TO_LIGHT_INDEX == [k \in 1..NUM_LIGHTS |-> k - 1]

\* ------------------------------------------------------------ bounds
\* clock resolution where a round takes a few clock steps
TickStep == 100
\* clock resolution where the mole timer is followed
FineTick == 10
\* clock resolution where only the end of the round is followed
RoundTick == 300
\* events the queue may hold before the producer is held back
MaxQueue == 3
\* button events the input device buffers between two reads
MaxBuf == 2
\* button events between the start of a countdown and GAME_OVER, per run
MaxPresses == 2
\* hits per round of the player who only hits
MaxHits == 5
\* button events of the round where shutdown is followed to its end
StopPresses == 1
\* rounds played where the game is shut down at any time
MaxRounds == 1
\* rounds played where it is not shut down
LongRounds == 2

\* the outcomes of random.randint(0, NUM_LIGHTS - 1) that are explored
SpawnChoices == {0, 4, NUM_LIGHTS - 1}
\* the input events the player produces: [code, value], value 1 = down, 0 = up
PressEvents == {[code |-> KEY_5, value |-> 1], [code |-> KEY_1, value |-> 1],
                [code |-> KEY_1, value |-> 0], [code |-> KEY_OTHER, value |-> 1]}

VARIABLES
    \* HardwareThread
    pc, running, is_available, dev_open, score, active_mole_light_index,
    last_mole_time, game_start_time, keys_pressed, batch, cd_step, rix,
    \* shared battle model
    current_health, is_destroyed, fortress,
    \* event queue
    event_queue,
    \* main thread
    mpc, ppc, p_i, current_ship, p_tmp, game_running, game_over,
    \* hardware
    pixels, shown, devbuf,
    \* clock
    now,
    \* history
    round, npress, lastEv, overs, sleeps_after_stop, stop_pc,
    \* nSpawn: MOLE_SPAWN events put in the round; carried: the score carried by
    \* the round's last PLAYER_HIT or PLAYER_MISS (0 when there is none)
    fresh, nHit, nMiss, nEsc, nSpawn, carried,
    \* observers
    ack_downs, cd_start, ended, polled, old, undrained

ctlVars == <<pc, running, is_available, dev_open, score, active_mole_light_index,
             last_mole_time, game_start_time, keys_pressed, batch, cd_step, rix>>
battleVars == <<current_health, is_destroyed, fortress>>
mainVars == <<mpc, ppc, p_i, current_ship, p_tmp, game_running, game_over>>
hwVars == <<pixels, shown, devbuf>>
obsVars == <<ack_downs, cd_start, ended, polled>>
frameVars == <<old, undrained>>
cntVars == <<fresh, nHit, nMiss, nEsc, nSpawn, carried, obsVars, frameVars>>
histVars == <<round, npress, lastEv, overs, sleeps_after_stop, stop_pc, cntVars>>
vars == <<ctlVars, battleVars, event_queue, mainVars, hwVars, now, histVars>>

None == -1
NoShip == 0

Colours == {"off", "green", "red", "blue", "white"}
EventTypes == {"START_SCREEN", "COUNTDOWN_FINISHED", "MOLE_SPAWN", "MOLE_ESCAPED",
               "PLAYER_HIT", "PLAYER_MISS", "GAME_OVER"}

\* an event dictionary: its "type" and its "score" or "index" (0 when it has none)
Event(t, v) == [type |-> t, val |-> v]
\* an input event of type EV_KEY: key code and value (1 = down, 0 = up)
KeyEvent(c, v) == [code |-> c, value |-> v]

\* ------------------------------------------------------------ light strip
\* a range that runs one pixel into the next light's
pixel_indices_overlapping(light_index) ==
    (light_index * PIXELS_PER_BUTTON)..(light_index * PIXELS_PER_BUTTON + PIXELS_PER_BUTTON)

get_pixel_indices_for_light(light_index) ==
    (light_index * PIXELS_PER_BUTTON)..(light_index * PIXELS_PER_BUTTON + PIXELS_PER_BUTTON - 1)

\* The strip is a sequence of colours: pixel i of the source is element i + 1.
set_all(c) == [p \in 1..NUM_PIXELS |-> c]

\* set_pixel(i, ...) for every i of the light's range
set_block(px, light_index, c) ==
    [p \in 1..NUM_PIXELS |->
        IF (p - 1) \in get_pixel_indices_for_light(light_index) THEN c ELSE px[p]]

\* the pixel buffer after light_up_mole / turn_off_mole (each ends with show())
light_up_mole(px, light_index) ==
    IF is_available THEN set_block(px, light_index, "green") ELSE px

\* turn_off_mole that leaves the light on
turn_off_nothing(px, light_index) == px

turn_off_mole(px, light_index) ==
    IF is_available /\ light_index # None THEN set_block(px, light_index, "off") ELSE px

\* plasma.show(): the strip displays the buffer (only reached when is_available)
show(px) == IF is_available THEN px ELSE shown

\* ------------------------------------------------------------ battle model
get_current_target_ship ==
    IF \E s \in Ships : ~is_destroyed[s]
    THEN CHOOSE s \in Ships : ~is_destroyed[s] /\ \A r \in 1..(s - 1) : is_destroyed[r]
    ELSE NoShip

\* ------------------------------------------------------------ initial state
\* the state after construction, the main thread about to run main_loop: "run"
\* is the main loop that drains event_queue every frame, "flip" the main loop
\* that only flips the display (src/new-pirate-game.py)
InitMain(main_loop) ==
    /\ pc = "loop_top"
    /\ running = TRUE
    /\ is_available \in BOOLEAN
    /\ dev_open \in BOOLEAN
    /\ is_available => dev_open
    /\ score = 0
    /\ active_mole_light_index = None
    /\ last_mole_time = 0
    /\ game_start_time = 0
    /\ keys_pressed = 0
    /\ batch = <<>>
    /\ cd_step = 0
    /\ rix = 0
    /\ current_health = [s \in Ships |-> SHIP_DATA[s]]
    /\ is_destroyed = [s \in Ships |-> FALSE]
    /\ fortress = PLAYER_MAX_HEALTH
    /\ event_queue = <<>>
    /\ mpc = main_loop
    /\ ppc = "drain"
    /\ p_i = 0
    /\ current_ship = NoShip
    /\ p_tmp = 0
    /\ game_running = FALSE
    /\ game_over = FALSE
    /\ pixels = set_all("off")
    /\ shown = set_all("off")
    /\ devbuf = <<>>
    /\ now = 0
    /\ round = 0
    /\ npress = 0
    /\ lastEv = Event("none", 0)
    /\ overs = 0
    /\ sleeps_after_stop = 0
    /\ stop_pc = "none"
    /\ fresh = TRUE
    /\ nHit = 0
    /\ nMiss = 0
    /\ nEsc = 0
    /\ nSpawn = 0
    /\ carried = 0
    /\ ack_downs = 0
    /\ cd_start = 0
    /\ ended = FALSE
    /\ polled = "none"
    /\ old = 0
    /\ undrained = 0

Init == InitMain("run")

\* ------------------------------------------------------------ controller
\* a put that waits for room in a queue of MaxQueue places
CanPutBounded(n) == ~running \/ Len(event_queue) + n <= MaxQueue

\* event_queue.put of n events by one controller step.  The queue is unbounded;
\* while the main loop drains it the controller is followed only as far as
\* MaxQueue waiting events, and after stop() nothing holds the controller back;
\* under a main loop that takes nothing the queue grows with the run.
CanPut(n) == ~running \/ mpc = "flip" \/ Len(event_queue) + n <= MaxQueue

\* spawn_next_mole without its event_queue.put
spawn_unannounced(new_mole_index, px, q, t) ==
    /\ pixels' = light_up_mole(turn_off_mole(px, active_mole_light_index), new_mole_index)
    /\ shown' = show(pixels')
    /\ active_mole_light_index' = new_mole_index
    /\ last_mole_time' = t
    /\ event_queue' = q
    /\ lastEv' = IF q = event_queue THEN lastEv ELSE q[Len(q)]
    /\ UNCHANGED nSpawn

\* spawn_next_mole with MOLE_SPAWN put ahead of the waiting events
spawn_at_front(new_mole_index, px, q, t) ==
    /\ pixels' = light_up_mole(turn_off_mole(px, active_mole_light_index), new_mole_index)
    /\ shown' = show(pixels')
    /\ active_mole_light_index' = new_mole_index
    /\ last_mole_time' = t
    /\ event_queue' = <<Event("MOLE_SPAWN", new_mole_index)>> \o q
    /\ lastEv' = Event("MOLE_SPAWN", new_mole_index)
    /\ nSpawn' = nSpawn + 1

\* spawn_next_mole announcing the new mole twice
spawn_twice(new_mole_index, px, q, t) ==
    /\ pixels' = light_up_mole(turn_off_mole(px, active_mole_light_index), new_mole_index)
    /\ shown' = show(pixels')
    /\ active_mole_light_index' = new_mole_index
    /\ last_mole_time' = t
    /\ event_queue' = Append(Append(q, Event("MOLE_SPAWN", new_mole_index)),
                             Event("MOLE_SPAWN", new_mole_index))
    /\ lastEv' = Event("MOLE_SPAWN", new_mole_index)
    /\ nSpawn' = nSpawn + 2

\* spawn_next_mole, starting from pixel buffer px and queue q at time t
spawn_next_mole(new_mole_index, px, q, t) ==
    /\ pixels' = light_up_mole(turn_off_mole(px, active_mole_light_index), new_mole_index)
    /\ shown' = show(pixels')
    /\ active_mole_light_index' = new_mole_index
    /\ last_mole_time' = t
    /\ event_queue' = Append(q, Event("MOLE_SPAWN", new_mole_index))
    /\ lastEv' = Event("MOLE_SPAWN", new_mole_index)
    /\ nSpawn' = nSpawn + 1

\* run(): "while self.running:" of the outer loop, for at most `rounds` rounds.
\* The clock is kept relative to the start of the iteration; last_mole_time and
\* game_start_time are not read again before they are reassigned.
LoopTop(rounds) ==
    /\ pc = "loop_top"
    /\ IF running
       THEN /\ round < rounds
            /\ pc' = "reset_health"
            /\ rix' = 1
            /\ round' = round + 1
            /\ npress' = npress
            /\ now' = 0
            /\ last_mole_time' = 0
            /\ game_start_time' = 0
            /\ fresh' = (event_queue = <<>> /\ ppc = "drain")
       ELSE /\ pc' = "exited"
            /\ UNCHANGED <<rix, round, npress, now, last_mole_time, game_start_time,
                           fresh>>
    /\ UNCHANGED <<running, is_available, dev_open, score, active_mole_light_index, keys_pressed,
                   batch, cd_step, battleVars, event_queue, mainVars, hwVars,
                   lastEv, overs, sleeps_after_stop, stop_pc, nHit, nMiss, nEsc, nSpawn, carried, obsVars, frameVars>>

\* reset_game_for_new_round: ship.current_health = ship.max_health
ResetHealth ==
    /\ pc = "reset_health"
    /\ current_health' = [current_health EXCEPT ![rix] = SHIP_DATA[rix]]
    /\ pc' = "reset_destroyed"
    /\ UNCHANGED <<running, is_available, dev_open, score, active_mole_light_index, last_mole_time,
                   game_start_time, keys_pressed, batch, cd_step, rix, is_destroyed,
                   fortress, event_queue, mainVars, hwVars, now, histVars>>

\* reset_game_for_new_round: ship.is_destroyed = False, then the next ship
ResetDestroyed ==
    /\ pc = "reset_destroyed"
    /\ is_destroyed' = [is_destroyed EXCEPT ![rix] = FALSE]
    /\ IF rix < NumShips
       THEN pc' = "reset_health" /\ rix' = rix + 1
       ELSE pc' = "reset_player" /\ rix' = 0
    /\ UNCHANGED <<running, is_available, dev_open, score, active_mole_light_index, last_mole_time,
                   game_start_time, keys_pressed, batch, cd_step, current_health,
                   fortress, event_queue, mainVars, hwVars, now, histVars>>

\* reset_game_for_new_round: PLAYER_FORTRESS['health'] = PLAYER_FORTRESS['max_health']
ResetPlayer ==
    /\ pc = "reset_player"
    /\ fortress' = PLAYER_MAX_HEALTH
    /\ pc' = "setup"
    /\ UNCHANGED <<running, is_available, dev_open, score, active_mole_light_index, last_mole_time,
                   game_start_time, keys_pressed, batch, cd_step, rix, current_health,
                   is_destroyed, event_queue, mainVars, hwVars, now, histVars>>

\* Setup without its START_SCREEN
SetupSilent ==
    /\ pc = "setup"
    /\ ended' = FALSE
    /\ polled' = "none"
    /\ score' = 0
    /\ active_mole_light_index' = None
    /\ pixels' = light_up_mole(turn_off_mole(pixels, None), KEY_TO_LIGHT_INDEX[KEY_5])
    /\ shown' = show(pixels')
    /\ overs' = 0
    /\ nHit' = 0
    /\ nMiss' = 0
    /\ nEsc' = 0
    /\ nSpawn' = 0
    /\ carried' = 0
    /\ pc' = "wait_start"
    /\ UNCHANGED <<running, is_available, dev_open, last_mole_time, game_start_time, keys_pressed,
                   batch, cd_step, rix, battleVars, event_queue, lastEv, mainVars, devbuf, now,
                   round, npress, sleeps_after_stop, stop_pc, fresh, ack_downs, cd_start, frameVars>>

\* run(): score and target reset, START_SCREEN, the start indicator
Setup ==
    /\ pc = "setup"
    /\ ended' = FALSE
    /\ polled' = "none"
    /\ CanPut(1)
    /\ score' = 0
    /\ active_mole_light_index' = None
    /\ event_queue' = Append(event_queue, Event("START_SCREEN", 0))
    /\ pixels' = light_up_mole(turn_off_mole(pixels, None), KEY_TO_LIGHT_INDEX[KEY_5])
    /\ shown' = show(pixels')
    /\ lastEv' = Event("START_SCREEN", 0)
    /\ overs' = 0
    /\ nHit' = 0
    /\ nMiss' = 0
    /\ nEsc' = 0
    /\ nSpawn' = 0
    /\ carried' = 0
    /\ pc' = "wait_start"
    /\ UNCHANGED <<running, is_available, dev_open, last_mole_time, game_start_time, keys_pressed,
                   batch, cd_step, rix, battleVars, mainVars, devbuf, now,
                   round, npress, sleeps_after_stop, stop_pc, fresh, ack_downs, cd_start, frameVars>>

\* whether a batch of input events holds a button-down of key code c
HasKeyDown(evs, c) == \E i \in 1..Len(evs) : evs[i].value = 1 /\ evs[i].code = c
HasAnyKeyDown(evs) == \E i \in 1..Len(evs) : evs[i].value = 1

\* the start wait without "and self.running": only a start press ends it
WaitStartDeaf ==
    /\ pc = "wait_start"
    /\ dev_open
    /\ devbuf # <<>>
    /\ devbuf' = <<>>
    /\ pc' = IF HasKeyDown(devbuf, KEY_5) THEN "start_check" ELSE "wait_start"
    /\ UNCHANGED <<running, is_available, dev_open, score, active_mole_light_index, last_mole_time,
                   game_start_time, keys_pressed, batch, cd_step, rix, battleVars,
                   event_queue, mainVars, pixels, shown, now, histVars>>

\* the start wait taking any button-down for the start press
WaitStartAnyKey ==
    /\ pc = "wait_start"
    /\ IF ~running
       THEN pc' = "exited" /\ devbuf' = devbuf /\ polled' = polled
       ELSE /\ dev_open
            /\ devbuf # <<>>
            /\ devbuf' = <<>>
            /\ pc' = IF HasAnyKeyDown(devbuf) THEN "start_check" ELSE "wait_start"
            /\ polled' = IF HasAnyKeyDown(devbuf) THEN "start" ELSE "ignored"
    /\ UNCHANGED <<running, is_available, dev_open, score, active_mole_light_index, last_mole_time,
                   game_start_time, keys_pressed, batch, cd_step, rix, battleVars,
                   event_queue, mainVars, pixels, shown, now,
                   round, npress, lastEv, overs, sleeps_after_stop, stop_pc,
                   fresh, nHit, nMiss, nEsc, nSpawn, carried, ack_downs, cd_start, ended, frameVars>>

\* run(): one pass of "while not start_pressed and self.running", and the
\* "if not self.running: break" behind it.  self.dev.read() takes every buffered
\* event; without self.dev, or with nothing buffered, the read raises and the
\* loop spins.
WaitStart ==
    /\ pc = "wait_start"
    /\ IF ~running
       THEN pc' = "exited" /\ devbuf' = devbuf /\ polled' = polled
       ELSE /\ dev_open
            /\ devbuf # <<>>
            /\ devbuf' = <<>>
            /\ pc' = IF HasKeyDown(devbuf, KEY_5) THEN "start_check" ELSE "wait_start"
            /\ polled' = IF HasKeyDown(devbuf, KEY_5) THEN "start" ELSE "ignored"
    /\ UNCHANGED <<running, is_available, dev_open, score, active_mole_light_index, last_mole_time,
                   game_start_time, keys_pressed, batch, cd_step, rix, battleVars,
                   event_queue, mainVars, pixels, shown, now,
                   round, npress, lastEv, overs, sleeps_after_stop, stop_pc,
                   fresh, nHit, nMiss, nEsc, nSpawn, carried, ack_downs, cd_start, ended, frameVars>>

\* run(): self.dev.read() of the start wait raises (IOError, BlockingIOError, or
\* AttributeError without self.dev): "pass", and the loop goes round.  polled
\* records the outcome of the controller's latest read.
WaitStartFail ==
    /\ pc = "wait_start"
    /\ running
    /\ polled' = "failed"
    /\ UNCHANGED <<ctlVars, battleVars, event_queue, mainVars, hwVars, now,
                   round, npress, lastEv, overs, sleeps_after_stop, stop_pc,
                   fresh, nHit, nMiss, nEsc, nSpawn, carried, ack_downs, cd_start, ended, frameVars>>

\* the sleeps of countdown_sequence, in order
CountdownSleeps == <<2 * COUNTDOWN_FLASH_DURATION, COUNTDOWN_FLASH_DURATION,
                     COUNTDOWN_FLASH_DURATION, COUNTDOWN_FLASH_DURATION,
                     COUNTDOWN_FLASH_DURATION, COUNTDOWN_FLASH_DURATION,
                     COUNTDOWN_FLASH_DURATION, COUNTDOWN_FLASH_DURATION>>

\* a sleep that starts while running is already False
SleepStarts == IF running THEN sleeps_after_stop ELSE sleeps_after_stop + 1

\* run(): "if not self.running: break" after the start wait, then the head of
\* countdown_sequence up to its first sleep.  cd_start is the time of the call.
StartCheck ==
    /\ pc = "start_check"
    /\ cd_start' = IF running THEN now ELSE cd_start
    /\ polled' = "none"
    /\ IF ~running
       THEN /\ pc' = "exited"
            /\ UNCHANGED <<pixels, shown, cd_step, event_queue, game_start_time, lastEv,
                           sleeps_after_stop>>
       ELSE IF is_available
            THEN /\ pixels' = set_all("blue")
                 /\ shown' = pixels'
                 /\ cd_step' = 1
                 /\ pc' = "countdown"
                 /\ sleeps_after_stop' = SleepStarts
                 /\ UNCHANGED <<event_queue, game_start_time, lastEv>>
            ELSE /\ CanPut(1)
                 /\ event_queue' = Append(event_queue, Event("COUNTDOWN_FINISHED", 0))
                 /\ lastEv' = Event("COUNTDOWN_FINISHED", 0)
                 /\ game_start_time' = now
                 /\ pc' = "act_top"
                 /\ UNCHANGED <<pixels, shown, cd_step, sleeps_after_stop>>
    /\ UNCHANGED <<running, is_available, dev_open, score, active_mole_light_index, last_mole_time,
                   keys_pressed, batch, rix, battleVars, mainVars, devbuf, now,
                   round, npress, overs, stop_pc, fresh, nHit, nMiss, nEsc, nSpawn, carried,
                   ack_downs, ended, frameVars>>

\* the pixel buffer after the statement that follows the cd_step-th sleep
CountdownPixels(k) ==
    CASE k = 1 -> set_all("off")
      [] k = 2 -> light_up_mole(pixels, 2)
      [] k = 3 -> turn_off_mole(pixels, 2)
      [] k = 4 -> light_up_mole(pixels, 1)
      [] k = 5 -> turn_off_mole(pixels, 1)
      [] k = 6 -> light_up_mole(pixels, 0)
      [] k = 7 -> turn_off_mole(pixels, 0)
      [] OTHER -> pixels

\* countdown_sequence: the cd_step-th sleep returns; the next statement runs and
\* the next sleep starts.  set_all(0, 0, 0) after the first sleep is not followed
\* by show().  After the last sleep COUNTDOWN_FINISHED is put and run() records
\* game_start_time.
CountdownWake ==
    /\ pc = "countdown"
    /\ now' = now + CountdownSleeps[cd_step]
    /\ pixels' = CountdownPixels(cd_step)
    /\ shown' = IF cd_step = 1 THEN shown ELSE show(pixels')
    /\ IF cd_step < Len(CountdownSleeps)
       THEN /\ cd_step' = cd_step + 1
            /\ pc' = "countdown"
            /\ sleeps_after_stop' = SleepStarts
            /\ UNCHANGED <<event_queue, lastEv, game_start_time>>
       ELSE /\ CanPut(1)
            /\ cd_step' = 0
            /\ event_queue' = Append(event_queue, Event("COUNTDOWN_FINISHED", 0))
            /\ lastEv' = Event("COUNTDOWN_FINISHED", 0)
            /\ game_start_time' = now'
            /\ pc' = "act_top"
            /\ UNCHANGED sleeps_after_stop
    /\ UNCHANGED <<running, is_available, dev_open, score, active_mole_light_index, last_mole_time,
                   keys_pressed, batch, rix, battleVars, mainVars, devbuf,
                   round, npress, overs, stop_pc, cntVars>>

\* the round-end condition without its time limit
RoundEndNoLimit(t) == fortress <= 0 \/ get_current_target_ship = NoShip

\* the round-end condition without its health and fleet parts
RoundEndTimeOnly(t) == t - game_start_time >= GAME_DURATION

\* the round-end condition of the inner game loop, read at time t
RoundEnd(t) ==
    \/ t - game_start_time >= GAME_DURATION
    \/ fortress <= 0
    \/ get_current_target_ship = NoShip

\* the mole timer condition met as soon as the mole duration is reached
MoleDueAtDuration(t) ==
    \/ active_mole_light_index = None
    \/ t - last_mole_time >= MOLE_DURATION

\* the mole timer condition without its "no mole is lit" part
MoleDueTimerOnly(t) == t - last_mole_time > MOLE_DURATION

\* the mole timer condition of the inner game loop
MoleDue(t) ==
    \/ active_mole_light_index = None
    \/ t - last_mole_time > MOLE_DURATION

\* run(): the head of one pass of the inner game loop: "while self.running",
\* the round-end check, then the mole timer (MOLE_ESCAPED and spawn_next_mole).
\* ended records whether the round-end condition held at this pass.
ActTop ==
    /\ pc = "act_top"
    /\ ended' = RoundEnd(now)
    /\ polled' = "none"
    /\ IF ~running \/ RoundEnd(now)
       THEN /\ pc' = "cleanup"
            /\ UNCHANGED <<active_mole_light_index, last_mole_time, event_queue,
                           pixels, shown, lastEv, nEsc, nSpawn>>
       ELSE IF MoleDue(now)
            THEN /\ CanPut(2)
                 /\ \E new_mole_index \in SpawnChoices :
                        spawn_next_mole(new_mole_index, pixels,
                            IF active_mole_light_index # None
                            THEN Append(event_queue, Event("MOLE_ESCAPED", 0))
                            ELSE event_queue, now)
                 /\ nEsc' = IF active_mole_light_index # None THEN nEsc + 1 ELSE nEsc
                 /\ pc' = "act_read"
            ELSE /\ pc' = "act_read"
                 /\ UNCHANGED <<active_mole_light_index, last_mole_time, event_queue,
                                pixels, shown, lastEv, nEsc, nSpawn>>
    /\ UNCHANGED <<running, is_available, dev_open, score, game_start_time, keys_pressed, batch,
                   cd_step, rix, battleVars, mainVars, devbuf, now,
                   round, npress, overs, sleeps_after_stop, stop_pc, fresh, nHit, nMiss, carried,
                   ack_downs, cd_start, frameVars>>

\* run(): "2. Read input": self.dev.read() takes every buffered event; with
\* nothing buffered it raises BlockingIOError, which is passed over
ActRead ==
    /\ pc = "act_read"
    /\ IF is_available /\ devbuf # <<>>
       THEN batch' = devbuf /\ devbuf' = <<>> /\ pc' = "act_event"
       ELSE batch' = batch /\ devbuf' = devbuf /\ pc' = "act_top"
    /\ UNCHANGED <<running, is_available, dev_open, score, active_mole_light_index, last_mole_time,
                   game_start_time, keys_pressed, cd_step, rix, battleVars,
                   event_queue, mainVars, pixels, shown, now, histVars>>

\* a failed read that ends the inner game loop
ActReadFailEnds ==
    /\ pc = "act_read"
    /\ is_available
    /\ devbuf # <<>>
    /\ pc' = "cleanup"
    /\ polled' = "failed"
    /\ UNCHANGED <<running, is_available, dev_open, score, active_mole_light_index, last_mole_time,
                   game_start_time, keys_pressed, batch, cd_step, rix, battleVars,
                   event_queue, mainVars, hwVars, now,
                   round, npress, lastEv, overs, sleeps_after_stop, stop_pc,
                   fresh, nHit, nMiss, nEsc, nSpawn, carried, ack_downs, cd_start, ended, frameVars>>

\* run(): self.dev.read() raises IOError: the pass ends with the input unread
ActReadFail ==
    /\ pc = "act_read"
    /\ is_available
    /\ devbuf # <<>>
    /\ pc' = "act_top"
    /\ polled' = "failed"
    /\ UNCHANGED <<running, is_available, dev_open, score, active_mole_light_index, last_mole_time,
                   game_start_time, keys_pressed, batch, cd_step, rix, battleVars,
                   event_queue, mainVars, hwVars, now,
                   round, npress, lastEv, overs, sleeps_after_stop, stop_pc,
                   fresh, nHit, nMiss, nEsc, nSpawn, carried, ack_downs, cd_start, ended, frameVars>>

\* whether the input event counts as a press on a light
Qualifies(e) ==
    /\ e.value = 1
    /\ active_mole_light_index # None
    /\ e.code \in DOMAIN KEY_TO_LIGHT_INDEX

\* run(): the for loop is over, back to the head of the inner loop
ActEventsDone ==
    /\ pc = "act_event"
    /\ batch = <<>>
    /\ pc' = "act_top"
    /\ UNCHANGED <<running, is_available, dev_open, score, active_mole_light_index, last_mole_time,
                   game_start_time, keys_pressed, batch, cd_step, rix, battleVars,
                   event_queue, mainVars, hwVars, now, histVars>>

\* run(): an event that is no button-down of a mapped key is passed over
ActSkip ==
    /\ pc = "act_event"
    /\ batch # <<>>
    /\ ~Qualifies(Head(batch))
    /\ batch' = Tail(batch)
    /\ UNCHANGED <<pc, running, is_available, dev_open, score, active_mole_light_index,
                   last_mole_time, game_start_time, keys_pressed, cd_step, rix,
                   battleVars, event_queue, mainVars, hwVars, now, histVars>>

\* a hit that is worth a miss's penalty
HitScoreHalf(s) == s + MISS_PENALTY

\* the score after a hit
HitScore(s) == s + HIT_SCORE

\* the score after a miss
MissScore(s) == IF s - MISS_PENALTY > 0 THEN s - MISS_PENALTY ELSE 0

\* a hit that drops the rest of the batch
ActHitBreak ==
    /\ pc = "act_event"
    /\ batch # <<>>
    /\ Qualifies(Head(batch))
    /\ KEY_TO_LIGHT_INDEX[Head(batch).code] = active_mole_light_index
    /\ CanPut(2)
    /\ score' = HitScore(score)
    /\ \E new_mole_index \in SpawnChoices :
           spawn_next_mole(new_mole_index, pixels,
               Append(event_queue, Event("PLAYER_HIT", score')), now)
    /\ batch' = <<>>
    /\ nHit' = nHit + 1
    /\ carried' = score'
    /\ UNCHANGED <<pc, running, is_available, dev_open, game_start_time, keys_pressed, cd_step, rix,
                   battleVars, mainVars, devbuf, now,
                   round, npress, overs, sleeps_after_stop, stop_pc, fresh, nMiss, nEsc, obsVars, frameVars>>

\* run(): the pressed light is the active mole: score, PLAYER_HIT, spawn_next_mole
ActHit ==
    /\ pc = "act_event"
    /\ batch # <<>>
    /\ Qualifies(Head(batch))
    /\ KEY_TO_LIGHT_INDEX[Head(batch).code] = active_mole_light_index
    /\ CanPut(2)
    /\ score' = HitScore(score)
    /\ \E new_mole_index \in SpawnChoices :
           spawn_next_mole(new_mole_index, pixels,
               Append(event_queue, Event("PLAYER_HIT", score')), now)
    /\ batch' = Tail(batch)
    /\ nHit' = nHit + 1
    /\ carried' = score'
    /\ UNCHANGED <<pc, running, is_available, dev_open, game_start_time, keys_pressed, cd_step, rix,
                   battleVars, mainVars, devbuf, now,
                   round, npress, overs, sleeps_after_stop, stop_pc, fresh, nMiss, nEsc, obsVars, frameVars>>

\* run(): the pressed light is another one: the penalty, then light_up_all_red
\* up to its sleep
ActMiss ==
    /\ pc = "act_event"
    /\ batch # <<>>
    /\ Qualifies(Head(batch))
    /\ KEY_TO_LIGHT_INDEX[Head(batch).code] # active_mole_light_index
    /\ score' = MissScore(score)
    /\ pixels' = IF is_available THEN set_all("red") ELSE pixels
    /\ shown' = show(pixels')
    /\ sleeps_after_stop' = SleepStarts
    /\ pc' = "flash"
    /\ UNCHANGED <<running, is_available, dev_open, active_mole_light_index, last_mole_time,
                   game_start_time, keys_pressed, batch, cd_step, rix, battleVars,
                   event_queue, mainVars, devbuf, now,
                   round, npress, lastEv, overs, stop_pc, cntVars>>

\* light_up_all_red after its sleep, then PLAYER_MISS and spawn_next_mole
ActFlashWake ==
    /\ pc = "flash"
    /\ CanPut(2)
    /\ now' = now + PENALTY_FLASH_DURATION
    /\ \E new_mole_index \in SpawnChoices :
           spawn_next_mole(new_mole_index,
               IF is_available THEN set_all("off") ELSE pixels,
               Append(event_queue, Event("PLAYER_MISS", score)), now')
    /\ batch' = Tail(batch)
    /\ nMiss' = nMiss + 1
    /\ carried' = score
    /\ pc' = "act_event"
    /\ UNCHANGED <<running, is_available, dev_open, score, game_start_time, keys_pressed, cd_step,
                   rix, battleVars, mainVars, devbuf,
                   round, npress, overs, sleeps_after_stop, stop_pc, fresh, nHit, nEsc, obsVars, frameVars>>

\* the cleanup restoring the fortress for the game-over screen
CleanupRestores ==
    /\ pc = "cleanup"
    /\ CanPut(1)
    /\ pixels' = IF is_available
                 THEN set_all("white")
                 ELSE turn_off_mole(pixels, active_mole_light_index)
    /\ shown' = show(pixels')
    /\ event_queue' = Append(event_queue, Event("GAME_OVER", score))
    /\ lastEv' = Event("GAME_OVER", score)
    /\ overs' = overs + 1
    /\ keys_pressed' = 0
    /\ ack_downs' = 0
    /\ fortress' = PLAYER_MAX_HEALTH
    /\ pc' = "wait_ack"
    /\ UNCHANGED <<running, is_available, dev_open, score, active_mole_light_index, last_mole_time,
                   game_start_time, batch, cd_step, rix, current_health, is_destroyed, mainVars, devbuf,
                   now, round, npress, sleeps_after_stop, stop_pc, fresh, nHit, nMiss, nEsc, nSpawn, carried, cd_start, ended, polled, frameVars>>

\* the cleanup with GAME_OVER put both before and after the indicators are set
CleanupTwice ==
    /\ pc = "cleanup"
    /\ CanPut(2)
    /\ pixels' = IF is_available
                 THEN set_all("white")
                 ELSE turn_off_mole(pixels, active_mole_light_index)
    /\ shown' = show(pixels')
    /\ event_queue' = Append(Append(event_queue, Event("GAME_OVER", score)),
                             Event("GAME_OVER", score))
    /\ lastEv' = Event("GAME_OVER", score)
    /\ overs' = overs + 2
    /\ keys_pressed' = 0
    /\ pc' = "wait_ack"
    /\ UNCHANGED <<running, is_available, dev_open, score, active_mole_light_index, last_mole_time,
                   game_start_time, batch, cd_step, rix, battleVars, mainVars, devbuf,
                   now, round, npress, sleeps_after_stop, stop_pc, cntVars>>

\* the cleanup putting GAME_OVER without the round's score
CleanupScoreless ==
    /\ pc = "cleanup"
    /\ CanPut(1)
    /\ pixels' = IF is_available
                 THEN set_all("white")
                 ELSE turn_off_mole(pixels, active_mole_light_index)
    /\ shown' = show(pixels')
    /\ event_queue' = Append(event_queue, Event("GAME_OVER", 0))
    /\ lastEv' = Event("GAME_OVER", 0)
    /\ overs' = overs + 1
    /\ keys_pressed' = 0
    /\ ack_downs' = 0
    /\ pc' = "wait_ack"
    /\ UNCHANGED <<running, is_available, dev_open, score, active_mole_light_index, last_mole_time,
                   game_start_time, batch, cd_step, rix, battleVars, mainVars, devbuf,
                   now, round, npress, sleeps_after_stop, stop_pc, fresh, nHit, nMiss, nEsc, nSpawn, carried, cd_start, ended, polled, frameVars>>

\* run(): "GAME OVER CLEANUP", GAME_OVER and the set-up of the acknowledgement wait
Cleanup ==
    /\ pc = "cleanup"
    /\ CanPut(1)
    /\ pixels' = IF is_available
                 THEN set_all("white")
                 ELSE turn_off_mole(pixels, active_mole_light_index)
    /\ shown' = show(pixels')
    /\ event_queue' = Append(event_queue, Event("GAME_OVER", score))
    /\ lastEv' = Event("GAME_OVER", score)
    /\ overs' = overs + 1
    /\ keys_pressed' = 0
    /\ ack_downs' = 0
    /\ pc' = "wait_ack"
    /\ UNCHANGED <<running, is_available, dev_open, score, active_mole_light_index, last_mole_time,
                   game_start_time, batch, cd_step, rix, battleVars, mainVars, devbuf,
                   now, round, npress, sleeps_after_stop, stop_pc, fresh, nHit, nMiss, nEsc, nSpawn, carried, cd_start, ended, polled, frameVars>>

\* run(): one pass of "while keys_pressed < keys_needed and self.running", and
\* behind it "if not self.running: break" and the lights switched off.  The for
\* loop breaks at the first button-down of the batch it read.
WaitAck ==
    /\ pc = "wait_ack"
    /\ IF ~running
       THEN /\ pc' = "exited"
            /\ UNCHANGED <<keys_pressed, devbuf, pixels, shown>>
       ELSE IF keys_pressed >= keys_needed
            THEN /\ pixels' = IF is_available THEN set_all("off") ELSE pixels
                 /\ shown' = show(pixels')
                 /\ pc' = "loop_top"
                 /\ UNCHANGED <<keys_pressed, devbuf>>
            ELSE /\ dev_open
                 /\ devbuf # <<>>
                 /\ devbuf' = <<>>
                 /\ keys_pressed' = IF HasAnyKeyDown(devbuf)
                                    THEN keys_pressed + 1 ELSE keys_pressed
                 /\ pc' = "wait_ack"
                 /\ UNCHANGED <<pixels, shown>>
    /\ ack_downs' = IF pc' = "wait_ack" THEN ack_downs ELSE 0
    /\ polled' = "none"
    /\ UNCHANGED <<running, is_available, dev_open, score, active_mole_light_index, last_mole_time,
                   game_start_time, batch, cd_step, rix, battleVars, event_queue,
                   mainVars, now, round, npress, lastEv, overs, sleeps_after_stop,
                   stop_pc, fresh, nHit, nMiss, nEsc, nSpawn, carried, cd_start, ended, frameVars>>

\* run(): self.dev.read() of the acknowledgement wait raises: time.sleep(0.05),
\* and the loop goes round
WaitAckFail ==
    /\ pc = "wait_ack"
    /\ running
    /\ keys_pressed < keys_needed
    /\ polled' = "failed"
    /\ UNCHANGED <<ctlVars, battleVars, event_queue, mainVars, hwVars, now,
                   round, npress, lastEv, overs, sleeps_after_stop, stop_pc,
                   fresh, nHit, nMiss, nEsc, nSpawn, carried, ack_downs, cd_start, ended, frameVars>>

\* ------------------------------------------------------------ main thread
\* main(): event_queue.get_nowait() and the branch on event['type'].  START_SCREEN,
\* COUNTDOWN_FINISHED and GAME_OVER set the screen flags; MOLE_SPAWN has no branch;
\* the battle events start with get_current_target_ship().
PGet ==
    /\ mpc = "run"
    /\ ppc = "drain"
    /\ event_queue # <<>>
    /\ event_queue' = Tail(event_queue)
    /\ old' = IF old > 0 THEN old - 1 ELSE 0
    /\ LET event == Head(event_queue) IN
       /\ game_running' = CASE event.type = "START_SCREEN" -> FALSE
                            [] event.type = "COUNTDOWN_FINISHED" -> TRUE
                            [] OTHER -> game_running
       /\ game_over' = CASE event.type = "START_SCREEN" -> FALSE
                         [] event.type = "GAME_OVER" -> TRUE
                         [] OTHER -> game_over
       /\ ppc' = CASE event.type = "PLAYER_HIT" -> "hit_scan"
                   [] event.type \in {"PLAYER_MISS", "MOLE_ESCAPED"} -> "miss_scan"
                   [] OTHER -> "drain"
       /\ p_i' = IF event.type \in {"PLAYER_HIT", "PLAYER_MISS", "MOLE_ESCAPED"}
                 THEN 1 ELSE 0
    /\ UNCHANGED <<ctlVars, battleVars, mpc, current_ship, p_tmp, hwVars, now, round, npress, lastEv, overs,
                   sleeps_after_stop, stop_pc, fresh, nHit, nMiss, nEsc, nSpawn, carried, obsVars, undrained>>

\* main(): "while not event_queue.empty()" is over; "2. Check for Win/Loss state
\* change", then the frame is updated and drawn.  old counts the events that
\* waited when the frame began and still wait; undrained is old at the last frame
\* drawn.
PRender ==
    /\ mpc = "run"
    /\ ppc = "drain"
    /\ event_queue = <<>>
    /\ undrained' = old
    /\ old' = Len(event_queue)
    /\ game_over' = IF game_running /\ (fortress <= 0 \/ get_current_target_ship = NoShip)
                    THEN TRUE ELSE game_over
    /\ UNCHANGED <<ctlVars, battleVars, event_queue, mpc, ppc, p_i, current_ship, p_tmp,
                   game_running, hwVars, now, round, npress, lastEv, overs,
                   sleeps_after_stop, stop_pc, fresh, nHit, nMiss, nEsc, nSpawn, carried, obsVars>>

\* main() of src/new-pirate-game.py: one pass of "while running": the window
\* events, then pygame.display.flip() and clock.tick(FPS); nothing between them
\* reads event_queue
PFlip ==
    /\ mpc = "flip"
    /\ undrained' = old
    /\ old' = Len(event_queue)
    /\ UNCHANGED <<ctlVars, battleVars, event_queue, mainVars, hwVars, now, round, npress,
                   lastEv, overs, sleeps_after_stop, stop_pc, fresh, nHit, nMiss, nEsc, nSpawn, carried,
                   obsVars>>

\* get_current_target_ship() in the main thread, one ship per step.  A destroyed
\* ship is passed over; past the last ship the result is None and the event has
\* no effect.  At the first ship that is not destroyed, PLAYER_HIT enters
\* take_damage, which passes "if not self.is_destroyed" and reads current_health;
\* PLAYER_MISS / MOLE_ESCAPED test "PLAYER_FORTRESS['health'] > 0".
PScan ==
    /\ mpc = "run"
    /\ ppc \in {"hit_scan", "miss_scan"}
    /\ IF p_i > NumShips
       THEN /\ ppc' = "drain"
            /\ p_i' = 0
            /\ UNCHANGED <<current_ship, p_tmp>>
       ELSE IF is_destroyed[p_i]
            THEN /\ p_i' = p_i + 1
                 /\ UNCHANGED <<ppc, current_ship, p_tmp>>
            ELSE IF ppc = "hit_scan"
                 THEN /\ current_ship' = p_i
                      /\ p_tmp' = current_health[p_i]
                      /\ p_i' = 0
                      /\ ppc' = "td_store"
                 ELSE /\ p_i' = 0
                      /\ ppc' = IF fortress > 0 THEN "miss_load" ELSE "drain"
                      /\ UNCHANGED <<current_ship, p_tmp>>
    /\ UNCHANGED <<ctlVars, battleVars, event_queue, mpc, game_running, game_over,
                   hwVars, now, histVars>>

\* take_damage with the sign of the damage reversed
DamagedUp(h) == h + 1

\* the health take_damage writes back
Damaged(h) == h - 1

\* take_damage: the write of "self.current_health -= 1"
PTdStore ==
    /\ mpc = "run"
    /\ ppc = "td_store"
    /\ current_health' = [current_health EXCEPT ![current_ship] = Damaged(p_tmp)]
    /\ ppc' = "td_zero"
    /\ p_tmp' = 0
    /\ UNCHANGED <<ctlVars, is_destroyed, fortress, event_queue, mpc, p_i, current_ship,
                   game_running, game_over, hwVars, now, histVars>>

\* take_damage after the write: "if self.current_health <= 0", and on the
\* next step "self.is_destroyed = True"
PTdFlag ==
    /\ mpc = "run"
    /\ ppc \in {"td_zero", "td_set"}
    /\ IF ppc = "td_zero"
       THEN /\ ppc' = IF current_health[current_ship] <= 0 THEN "td_set" ELSE "heal_load"
            /\ UNCHANGED is_destroyed
       ELSE /\ is_destroyed' = [is_destroyed EXCEPT ![current_ship] = TRUE]
            /\ ppc' = "heal_load"
    /\ UNCHANGED <<ctlVars, current_health, fortress, event_queue, mpc, p_i, current_ship,
                   p_tmp, game_running, game_over, hwVars, now, histVars>>

\* PLAYER_HIT: the read of PLAYER_FORTRESS['health'] in the heal
PHealLoad ==
    /\ mpc = "run"
    /\ ppc = "heal_load"
    /\ p_tmp' = fortress
    /\ current_ship' = NoShip
    /\ ppc' = "heal_store"
    /\ UNCHANGED <<ctlVars, battleVars, event_queue, mpc, p_i, game_running, game_over,
                   hwVars, now, histVars>>

\* the heal without its min(..., max_health)
HealedUnclamped(h) == h + HEAL_AMOUNT

\* min(health + 0.5, max_health)
Healed(h) == IF h + HEAL_AMOUNT < PLAYER_MAX_HEALTH THEN h + HEAL_AMOUNT ELSE PLAYER_MAX_HEALTH

\* PLAYER_HIT: the write of the heal
PHealStore ==
    /\ mpc = "run"
    /\ ppc = "heal_store"
    /\ fortress' = Healed(p_tmp)
    /\ p_tmp' = 0
    /\ ppc' = "drain"
    /\ UNCHANGED <<ctlVars, current_health, is_destroyed, event_queue, mpc, p_i,
                   current_ship, game_running, game_over, hwVars, now, histVars>>

\* PLAYER_MISS / MOLE_ESCAPED: the read of PLAYER_FORTRESS['health'] in the damage
PMissLoad ==
    /\ mpc = "run"
    /\ ppc = "miss_load"
    /\ p_tmp' = fortress
    /\ ppc' = "miss_store"
    /\ UNCHANGED <<ctlVars, battleVars, event_queue, mpc, p_i, current_ship,
                   game_running, game_over, hwVars, now, histVars>>

\* the damage halved
StruckHalf(h) == IF h - 1 > 0 THEN h - 1 ELSE 0

\* max(0, health - 1)
Struck(h) == IF h - ENEMY_DAMAGE > 0 THEN h - ENEMY_DAMAGE ELSE 0

\* PLAYER_MISS / MOLE_ESCAPED: the write of the damage
PMissStore ==
    /\ mpc = "run"
    /\ ppc = "miss_store"
    /\ fortress' = Struck(p_tmp)
    /\ p_tmp' = 0
    /\ ppc' = "drain"
    /\ UNCHANGED <<ctlVars, current_health, is_destroyed, event_queue, mpc, p_i,
                   current_ship, game_running, game_over, hwVars, now, histVars>>

\* main() finally / HardwareThread.stop(): "self.running = False".  The main loop
\* is left between two events of the drain.
Stop ==
    /\ mpc = "run"
    /\ ppc = "drain"
    /\ pc # "exited"
    /\ running' = FALSE
    /\ mpc' = "stop_clear"
    /\ stop_pc' = pc
    /\ UNCHANGED <<pc, is_available, dev_open, score, active_mole_light_index, last_mole_time,
                   game_start_time, keys_pressed, batch, cd_step, rix, battleVars,
                   event_queue, ppc, p_i, current_ship, p_tmp, game_running, game_over,
                   hwVars, now, round, npress, lastEv, overs, sleeps_after_stop, cntVars>>

\* HardwareThread.stop(): "if self.is_available: set_all(0, 0, 0); show()"
StopLights ==
    /\ mpc = "stop_clear"
    /\ pixels' = IF is_available THEN set_all("off") ELSE pixels
    /\ shown' = show(pixels')
    /\ mpc' = "join"
    /\ UNCHANGED <<ctlVars, battleVars, event_queue, ppc, p_i, current_ship, p_tmp,
                   game_running, game_over, devbuf, now, histVars>>

\* main() finally: hardware_thread.join() returns once run() has returned
Join ==
    /\ mpc = "join"
    /\ pc = "exited"
    /\ mpc' = "done"
    /\ UNCHANGED <<ctlVars, battleVars, event_queue, ppc, p_i, current_ship, p_tmp,
                   game_running, game_over, hwVars, now, histVars>>

\* ------------------------------------------------------------ environment
\* the controller positions between the start of the countdown and GAME_OVER
InRound == {"start_check", "countdown", "act_top", "act_read", "act_event", "flash",
            "cleanup"}

\* the player moves key c (v = 1 down, 0 up): the input device buffers the event.
\* ack_downs counts the button-downs since GAME_OVER, up to keys_needed.
\* The player plays while the game is up.
Press(c, v) ==
    /\ dev_open
    /\ running
    /\ pc \notin {"loop_top", "exited"}
    /\ Len(devbuf) < MaxBuf
    /\ devbuf' = Append(devbuf, KeyEvent(c, v))
    /\ npress' = IF pc \in InRound THEN npress + 1 ELSE npress
    /\ ack_downs' = IF pc = "wait_ack" /\ v = 1 /\ ack_downs < keys_needed
                    THEN ack_downs + 1 ELSE ack_downs
    /\ UNCHANGED <<ctlVars, battleVars, event_queue, mainVars, pixels, shown, now,
                   round, lastEv, overs, sleeps_after_stop, stop_pc, fresh, nHit, nMiss, nEsc, nSpawn, carried, cd_start, ended, polled, frameVars>>

\* time passes between two passes of the inner game loop; the first pass
\* follows "self.game_start_time = time.time()" at once
Tick(d) ==
    /\ pc = "act_top"
    /\ running
    /\ active_mole_light_index # None
    /\ now - game_start_time < GAME_DURATION
    /\ now' = now + d
    /\ UNCHANGED <<ctlVars, battleVars, event_queue, mainVars, hwVars, histVars>>

\* time passes once the main loop has drained the queue: a frame (1/90 s) is
\* shorter than a clock step
TickDrained(d) ==
    /\ event_queue = <<>>
    /\ ppc = "drain"
    /\ Tick(d)

\* time passes while the main loop leaves events waiting in the queue
TickBehind(d) ==
    /\ event_queue # <<>>
    /\ ppc = "drain"
    /\ Tick(d)

\* ------------------------------------------------------------ specifications
\* the steps of run() that every round takes
CtlRound(rounds) ==
    \/ LoopTop(rounds) \/ ResetHealth \/ ResetDestroyed \/ ResetPlayer \/ Setup
    \/ WaitStart \/ StartCheck \/ CountdownWake \/ ActTop \/ ActRead \/ Cleanup \/ WaitAck

Controller(rounds) ==
    \/ CtlRound(rounds)
    \/ ActReadFail \/ ActEventsDone \/ ActSkip \/ ActHit \/ ActMiss \/ ActFlashWake

PresMiss == PGet \/ PRender \/ PScan \/ PMissLoad \/ PMissStore

PresHit == PTdStore \/ PTdFlag \/ PHealLoad \/ PHealStore

Presentation == PresMiss \/ PresHit

Shutdown == Stop \/ StopLights \/ Join

\* a player who presses any of PressEvents at any time, MaxPresses times in rounds
Player ==
    \E e \in PressEvents :
        /\ pc \in InRound => npress < MaxPresses
        /\ Press(e.code, e.value)

\* a player who only starts the round and acknowledges its end
PlayerQuiet ==
    /\ pc \in {"wait_start", "wait_ack"}
    /\ Press(KEY_5, 1)

\* a player who presses the key of the lit mole, right before the controller reads
PlayerTarget ==
    /\ pc = "act_read"
    /\ active_mole_light_index # None
    /\ devbuf = <<>>
    /\ nHit < MaxHits
    /\ Press(active_mole_light_index + 1, 1)

\* the main loop's handling of PLAYER_HIT
PresOfHits == PGet \/ PRender \/ PScan \/ PresHit

\* any player, with shutdown at any time
Next == Controller(MaxRounds) \/ Presentation \/ Shutdown \/ Player \/ Tick(TickStep)

Spec == Init /\ [][Next]_vars

\* a player who starts the round, moves keys of PressEvents between two reads
\* of the game loop and acknowledges the end of the round
PlayerRound(presses) ==
    \/ PlayerQuiet
    \/ \E e \in PressEvents :
           /\ pc = "act_read"
           /\ npress < presses
           /\ Press(e.code, e.value)

\* that player, the game never shut down; the main loop handles an event in
\* less time than the controller takes for a step
NextPlay ==
    \/ /\ ppc = "drain"
       /\ (Controller(LongRounds) \/ PlayerRound(MaxPresses) \/ Tick(TickStep))
    \/ Presentation

SpecPlay == Init /\ [][NextPlay]_vars

\* a player whose StopPresses button events of the round arrive right before
\* the controller reads
PlayerPoll ==
    \E e \in PressEvents :
        /\ pc = "act_read"
        /\ devbuf = <<>>
        /\ npress < StopPresses
        /\ Press(e.code, e.value)

\* that player, whose start and acknowledgement presses come one per read, with
\* shutdown at any time
NextStop ==
    \/ /\ ppc = "drain"
       /\ \/ Controller(MaxRounds) \/ PlayerPoll \/ Tick(RoundTick)
          \/ (devbuf = <<>> /\ PlayerQuiet)
    \/ Presentation \/ Shutdown

\* the worker thread keeps being scheduled, and the main thread runs stop() and
\* join() to their end once it has entered stop()
SpecStop ==
    Init /\ [][NextStop]_vars
         /\ WF_vars(Controller(MaxRounds)) /\ WF_vars(StopLights \/ Join)

\* nobody presses a button between the start press and GAME_OVER
NextQuiet == CtlRound(LongRounds) \/ PresMiss \/ PlayerQuiet \/ TickDrained(FineTick)

SpecQuiet == Init /\ [][NextQuiet]_vars

\* nobody presses during the round, and the start and acknowledgement presses
\* come one per read; the main loop may leave events waiting while the clock
\* runs, and handles an event in less time than the controller takes for a step
NextLag ==
    \/ /\ ppc = "drain"
       /\ (CtlRound(LongRounds) \/ (devbuf = <<>> /\ PlayerQuiet))
    \/ TickDrained(FineTick) \/ TickBehind(TickStep)
    \/ PresMiss

SpecLag == Init /\ [][NextLag]_vars

\* every press during the round is on the lit mole
NextHits ==
    \/ CtlRound(LongRounds) \/ ActEventsDone \/ ActHit
    \/ PresOfHits \/ PlayerQuiet \/ PlayerTarget \/ Tick(RoundTick)

SpecHits == Init /\ [][NextHits]_vars

\* a player who moves any keys while the controller waits for the acknowledgement
PlayerAck ==
    /\ pc = "wait_ack"
    /\ \E e \in PressEvents : Press(e.code, e.value)

\* rounds that time out untouched, each acknowledged with any keys
NextAck ==
    \/ CtlRound(LongRounds) \/ PGet \/ PRender
    \/ PlayerQuiet \/ PlayerAck \/ Tick(RoundTick)

SpecAck == Init /\ [][NextAck]_vars

\* untouched rounds whose escapes the main loop handles at any later time
NextEsc == CtlRound(LongRounds) \/ PresMiss \/ PlayerQuiet \/ Tick(TickStep)

SpecEsc == Init /\ [][NextEsc]_vars

\* src/new-pirate-game.py: HardwareThread.__init__ fails at os.O.NONBLOCK with
\* self.dev open, and the main loop is PFlip.  The run is followed from the
\* start of the program to the end of the countdown.
InitNew == InitMain("flip") /\ ~is_available /\ dev_open

NextNew ==
    \/ LoopTop(MaxRounds) \/ ResetHealth \/ ResetDestroyed \/ ResetPlayer \/ Setup
    \/ WaitStart \/ StartCheck \/ PFlip \/ Player

SpecNew == InitNew /\ [][NextNew]_vars

\* the keys of PressEvents and the release of the start button
StartEvents == PressEvents \cup {KeyEvent(KEY_5, 0)}

\* a player who moves any keys while the controller waits for the start press
PlayerStart ==
    /\ pc = "wait_start"
    /\ \E e \in StartEvents : Press(e.code, e.value)

\* the run from the start of the program to the end of the countdown, with
\* shutdown at any time
NextStart ==
    \/ LoopTop(MaxRounds) \/ ResetHealth \/ ResetDestroyed \/ ResetPlayer \/ Setup
    \/ WaitStart \/ StartCheck \/ CountdownWake
    \/ PGet \/ PRender \/ PlayerStart \/ Shutdown

SpecStart == Init /\ [][NextStart]_vars

\* a player who moves keys of PressEvents only while the countdown runs
PlayerCountdown ==
    /\ pc = "countdown"
    /\ \E e \in PressEvents : Press(e.code, e.value)

\* rounds in which the player touches the buttons during the countdown and
\* not in the inner game loop
NextCountdown ==
    \/ Controller(MaxRounds) \/ Presentation
    \/ (devbuf = <<>> /\ PlayerQuiet) \/ PlayerCountdown \/ Tick(TickStep)

SpecCountdown == Init /\ [][NextCountdown]_vars


\* any of the three programs
InitAny == Init \/ InitNew

\* the controller from the start of the program to the put of GAME_OVER
CtlToOver ==
    \/ LoopTop(MaxRounds) \/ ResetHealth \/ ResetDestroyed \/ ResetPlayer \/ Setup
    \/ WaitStart \/ StartCheck \/ CountdownWake \/ ActTop \/ ActRead \/ ActReadFail
    \/ ActEventsDone \/ ActSkip \/ ActHit \/ ActMiss \/ ActFlashWake \/ Cleanup

\* the flipping main loop has drawn its frames since the last put
Flipped == mpc = "flip" => (old = Len(event_queue) /\ undrained = old)

\* a round with the player of PlayerPoll, under a main loop that drains the
\* queue or one that leaves it alone; a frame takes less time than a step of
\* the controller
NextOver ==
    \/ /\ Flipped
       /\ \/ CtlToOver \/ PlayerPoll \/ Tick(TickStep)
          \/ (devbuf = <<>> /\ pc = "wait_start" /\ PlayerQuiet)
    \/ Presentation
    \/ (~Flipped /\ PFlip)

\* both threads keep running, and the clock moves on between passes of the
\* inner game loop
SpecOver ==
    /\ InitAny
    /\ [][NextOver]_vars
    /\ WF_vars(CtlToOver)
    /\ WF_vars(Presentation \/ PFlip)
    /\ SF_vars(Tick(TickStep))

\* src/new-pirate-game.py, whose main loop takes nothing from the queue: whole
\* rounds with a player who moves one key at a time; a frame takes less time
\* than a step of the controller
NextStall ==
    \/ /\ Flipped
       /\ (CtlRound(MaxRounds) \/ (devbuf = <<>> /\ Player) \/ Tick(TickStep))
    \/ (~Flipped /\ PFlip)

SpecStall == InitNew /\ [][NextStall]_vars

\* the player of PlayerPoll and a device whose reads may fail in the two waits
\* as well; the main loop handles an event in less time than the controller
\* takes for a step
NextFail ==
    \/ /\ ppc = "drain"
       /\ \/ Controller(MaxRounds) \/ WaitStartFail \/ WaitAckFail
          \/ PlayerPoll \/ Tick(RoundTick) \/ (devbuf = <<>> /\ PlayerQuiet)
    \/ Presentation

SpecFail == Init /\ [][NextFail]_vars

\* the operations of the light strip, applied in any order to any position
LightUpMole(light_index) ==
    /\ pixels' = light_up_mole(pixels, light_index)
    /\ shown' = show(pixels')
    /\ UNCHANGED <<ctlVars, battleVars, event_queue, mainVars, devbuf, now, histVars>>

TurnOffMole(light_index) ==
    /\ pixels' = turn_off_mole(pixels, light_index)
    /\ shown' = show(pixels')
    /\ UNCHANGED <<ctlVars, battleVars, event_queue, mainVars, devbuf, now, histVars>>

\* plasma.set_all, as light_up_all_red calls it
SetAll(c) ==
    /\ is_available
    /\ pixels' = set_all(c)
    /\ shown' = show(pixels')
    /\ UNCHANGED <<ctlVars, battleVars, event_queue, mainVars, devbuf, now, histVars>>

NextLights ==
    \/ \E light_index \in 0..(NUM_LIGHTS - 1) : LightUpMole(light_index)
    \/ \E light_index \in (0..(NUM_LIGHTS - 1)) \cup {None} : TurnOffMole(light_index)
    \/ SetAll("red")

SpecLights == Init /\ [][NextLights]_vars

\* a player who presses the key of the lit mole once the fortress is down to
\* its last point
PlayerLast ==
    /\ fortress <= ENEMY_DAMAGE
    /\ PlayerTarget

\* a round left untouched until the fortress is nearly lost, then played with
\* hits; the main loop handles an event in less time than the controller takes
\* for a step
NextSiege ==
    \/ /\ ppc = "drain"
       /\ (CtlRound(MaxRounds) \/ ActEventsDone \/ ActHit \/ PlayerQuiet \/ PlayerLast)
    \/ TickDrained(FineTick)
    \/ Presentation

SpecSiege == Init /\ [][NextSiege]_vars

\* the time between two passes of the inner loop that brings the second one
\* to 0.1 s before the round duration is over
LateTick == GAME_DURATION - 1

\* a round whose passes are a clock step or a penalty flash apart, one of them
\* beginning 0.1 s before the round duration is over, with the presses of
\* PlayerRound
NextLate ==
    \/ /\ ppc = "drain"
       /\ (Controller(MaxRounds) \/ PlayerRound(MaxPresses) \/ Tick(LateTick))
    \/ Presentation

SpecLate == Init /\ [][NextLate]_vars

\* ------------------------------------------------------------ claims
\* elapsed time of the round, as the inner loop computes it
Elapsed == now - game_start_time

\* C1: in every reachable state, under any interleaving of the controller (its
\* round-start reset included) and the main loop's event consumption, every
\* ship's current_health is in 0..max_health and the fortress health is in
\* 0..max_health.
C1_HealthInRange ==
    /\ \A s \in Ships : current_health[s] >= 0 /\ current_health[s] <= SHIP_DATA[s]
    /\ fortress >= 0 /\ fortress <= PLAYER_MAX_HEALTH

\* the fleet as SHIP_DATA sets it up
FleetUntouched == \A s \in Ships : current_health[s] = SHIP_DATA[s] /\ ~is_destroyed[s]

\* the controller is between COUNTDOWN_FINISHED and the acknowledgement
InActiveOrOver == pc \in {"act_top", "act_read", "act_event", "flash", "cleanup", "wait_ack"}

\* C2 as stated: in a round without button presses (main loop keeping up) the
\* inner game loop is left only once the round duration has elapsed.
C2_ActiveLastsFullDuration ==
    pc = "cleanup" => Elapsed >= GAME_DURATION

\* C2 as amended: in a round without button presses (main loop keeping up),
\* MOLE_ESCAPED is put at most once per mole duration, every consumed escape
\* lowers the fortress health by 1 (floored at 0), the fleet stays untouched,
\* and the inner loop is left when the round duration has elapsed or when the
\* fortress health has reached 0, which the 10th consumed escape brings about;
\* the round then ends with GAME_OVER.
C2_QuietRound ==
    /\ [](/\ FleetUntouched
          /\ nEsc <= PLAYER_MAX_HEALTH \div ENEMY_DAMAGE
          /\ (fresh /\ InActiveOrOver /\ nEsc > 0) => nEsc * MOLE_DURATION < Elapsed
          /\ (fresh /\ pc = "cleanup") => (Elapsed >= GAME_DURATION \/ fortress <= 0)
          /\ (fresh /\ InActiveOrOver /\ event_queue = <<>> /\ ppc = "drain")
                => fortress = PLAYER_MAX_HEALTH - ENEMY_DAMAGE * nEsc
          /\ pc = "wait_ack" => (lastEv.type = "GAME_OVER" /\ overs = 1))
    /\ [][(fresh /\ ppc = "miss_store" /\ ppc' = "drain")
             => fortress' = (IF fortress - ENEMY_DAMAGE > 0
                             THEN fortress - ENEMY_DAMAGE ELSE 0)]_vars

\* a round without presses that ends before its duration, on the 10th escape
C2_Witness ==
    /\ fresh
    /\ pc = "cleanup"
    /\ nEsc = PLAYER_MAX_HEALTH \div ENEMY_DAMAGE
    /\ fortress = 0
    /\ Elapsed < GAME_DURATION
    /\ FleetUntouched

\* every indicator of the strip is off
AllOff == \A p \in 1..NUM_PIXELS : shown[p] = "off"

\* the controller positions of the phases AWAITING_START, COUNTDOWN, ACTIVE and
\* AWAITING_ACK
StopPhases == {"wait_start", "countdown", "act_top", "act_read", "act_event", "flash",
               "wait_ack"}

\* C3: whenever the worker has exited after a stop signal that arrived in
\* AWAITING_START, mid-countdown, ACTIVE or AWAITING_ACK (stop() itself having
\* returned), all indicators are off.
C3_IndicatorsOffAtExit ==
    (pc = "exited" /\ mpc \in {"join", "done"} /\ stop_pc \in StopPhases) => AllOff

\* C4: after the stop signal is set while the controller is in the countdown,
\* the worker starts no further blocking sleep before it exits.
C4_NoSleepAfterStop ==
    stop_pc = "countdown" => sleeps_after_stop = 0

\* C5: after the stop signal is set the worker eventually exits, from every
\* phase and without any button press, and the main thread's join completes.
C5_WorkerExits ==
    /\ (~running) ~> (pc = "exited")
    /\ (mpc = "stop_clear") ~> (mpc = "done")

\* stop arrived in the acknowledgement wait, no acknowledgement was made after
\* it, and the join has completed
C5_Witness ==
    /\ stop_pc = "wait_ack"
    /\ keys_pressed < keys_needed
    /\ devbuf = <<>>
    /\ pc = "exited"
    /\ mpc = "done"

\* the event put before the last one
BeforeLast(q) == q[Len(q) - 1]

\* C6: the score is never negative and is 0 at the start of each round; a miss
\* sets it to max(0, score - 0.5) and a hit to score + 1; PLAYER_MISS and
\* PLAYER_HIT carry the score after that update; nothing else changes the score.
C6_ScoreRules ==
    /\ [](score >= 0)
    /\ [](pc \in {"wait_start", "start_check", "countdown"} => score = 0)
    /\ [][(pc = "act_event" /\ pc' = "flash")
             => score' = (IF score - MISS_PENALTY > 0 THEN score - MISS_PENALTY ELSE 0)]_vars
    /\ [][nMiss' = nMiss + 1
             => (score' = score /\ BeforeLast(event_queue') = Event("PLAYER_MISS", score'))]_vars
    /\ [][nHit' = nHit + 1
             => (/\ score' = score + HIT_SCORE
                 /\ BeforeLast(event_queue') = Event("PLAYER_HIT", score'))]_vars
    /\ [][score' # score
             => (\/ nHit' = nHit + 1
                 \/ (pc = "act_event" /\ pc' = "flash")
                 \/ (pc = "setup" /\ score' = 0))]_vars

\* a round with a hit and then a miss ended at 1 - 0.5, and the next round has
\* started at 0
C6_Witness ==
    /\ round = 2
    /\ pc = "wait_start"
    /\ score = 0
    /\ \E i \in 1..Len(event_queue) :
           event_queue[i] = Event("GAME_OVER", HIT_SCORE - MISS_PENALTY)

\* the events a step puts into the queue, in order
Appended ==
    IF Len(event_queue') > Len(event_queue)
    THEN SubSeq(event_queue', Len(event_queue) + 1, Len(event_queue'))
    ELSE <<>>

OutcomeTypes == {"PLAYER_HIT", "PLAYER_MISS", "MOLE_ESCAPED"}

\* C7: whenever PLAYER_HIT, PLAYER_MISS or MOLE_ESCAPED is put, the event put
\* right before it is the MOLE_SPAWN of the active target, put in the same
\* round; so no other outcome event lies between that spawn and the outcome.
C7_OutcomeAfterSpawn ==
    [][\A j \in 1..Len(Appended) :
          Appended[j].type \in OutcomeTypes
             => (/\ j = 1
                 /\ lastEv = Event("MOLE_SPAWN", active_mole_light_index)
                 /\ pc \in {"act_top", "act_event", "flash"})]_vars

\* a hit, a miss and an escape have each been put after their own spawn
C7_Witness ==
    /\ nHit >= 1
    /\ nMiss >= 1
    /\ nEsc >= 1
    /\ lastEv.type = "MOLE_SPAWN"

\* the GAME_OVER events a step puts
OversPut == Len(SelectSeq(Appended, LAMBDA e : e.type = "GAME_OVER"))

\* C8: GAME_OVER is put exactly once per round, also when several round-end
\* conditions hold at once: none between the round's set-up and the end of its
\* inner loop, one by the time the acknowledgement wait begins, still one when
\* the next round's START_SCREEN is put, and the count follows the queue.
C8_OneRoundOver ==
    /\ [](/\ overs <= 1
          /\ pc \in {"wait_start", "start_check", "countdown", "act_top", "act_read",
                      "act_event", "flash", "cleanup"} => overs = 0
          /\ pc = "wait_ack" => overs = 1)
    /\ [][(pc = "setup" /\ pc' = "wait_start" /\ round > 1) => overs = 1]_vars
    /\ [][pc' # "wait_start" => overs' = overs + OversPut]_vars

\* the inner loop was left with the round duration elapsed and the fortress at
\* 0 in the same pass, and GAME_OVER has been put once
C8_Witness ==
    /\ pc = "wait_ack"
    /\ overs = 1
    /\ lastEv.type = "GAME_OVER"
    /\ Elapsed >= GAME_DURATION
    /\ fortress <= 0

\* the fleet index of the current target, past the fleet when there is none
TargetIndex(destroyed) ==
    IF \E s \in Ships : ~destroyed[s]
    THEN CHOOSE s \in Ships : ~destroyed[s] /\ \A r \in 1..(s - 1) : destroyed[r]
    ELSE NumShips + 1

\* a step of reset_game_for_new_round on a ship
ResetStep == pc \in {"reset_health", "reset_destroyed"} /\ pc' # pc

\* C9: by any step other than a write of the round-start reset, no ship's
\* current_health increases, no destroyed ship becomes non-destroyed, and the
\* current target does not move to an earlier fleet index.
C9_FleetMonotonic ==
    [][~ResetStep
         => (/\ \A s \in Ships : /\ current_health'[s] <= current_health[s]
                                 /\ is_destroyed[s] => is_destroyed'[s]
             /\ TargetIndex(is_destroyed') >= TargetIndex(is_destroyed))]_vars

\* the first ship has been destroyed and the target has moved on to the second,
\* which has taken damage
C9_Witness ==
    /\ is_destroyed[1]
    /\ current_health[1] = 0
    /\ get_current_target_ship = 2
    /\ current_health[2] < SHIP_DATA[2]

\* C10: in a fresh round with 5 hits, no miss and no escape, once the 5
\* PLAYER_HIT events are consumed the first ship is destroyed at health 0, the
\* current target is the second ship at full health, the fortress health is
\* at its maximum and the controller's score is 5.
C10_FiveHits ==
    (/\ fresh
     /\ InActiveOrOver
     /\ nHit = 5 /\ nMiss = 0 /\ nEsc = 0
     /\ ppc = "drain"
     /\ \A i \in 1..Len(event_queue) : event_queue[i].type # "PLAYER_HIT")
    => (/\ is_destroyed[1]
        /\ current_health[1] = 0
        /\ get_current_target_ship = 2
        /\ current_health[2] = SHIP_DATA[2]
        /\ \A s \in 2..NumShips : ~is_destroyed[s]
        /\ fortress = PLAYER_MAX_HEALTH
        /\ score = 5 * HIT_SCORE)

\* the fifth hit of a fresh round without miss or escape has been consumed
C10_Witness ==
    /\ fresh
    /\ pc \in {"act_top", "act_read", "act_event"}
    /\ nHit = 5 /\ nMiss = 0 /\ nEsc = 0
    /\ ppc = "drain"
    /\ event_queue = <<>>
    /\ is_destroyed[1]
    /\ score = 5 * HIT_SCORE

\* C11: after GAME_OVER the wait ends after exactly 2 button-downs: once the
\* controller has polled the 2nd button-down it has counted keys_needed, however
\* the button-downs were grouped into polls, and it has not counted keys_needed
\* before the 2nd button-down.
C11_SecondDownEndsWait ==
    (pc = "wait_ack" /\ running) =>
        /\ (devbuf = <<>> /\ ack_downs >= keys_needed) => keys_pressed >= keys_needed
        /\ keys_pressed >= keys_needed => ack_downs >= keys_needed

\* the time countdown_sequence takes with the strip present
CountdownLength == 2 * COUNTDOWN_FLASH_DURATION + 7 * COUNTDOWN_FLASH_DURATION

\* C12: with is_available False the controller keeps the schedule it has with the
\* hardware: COUNTDOWN_FINISHED is put, and the round clock started, a full
\* countdown after the start button was seen, whatever is_available is.
C12_SameSchedule ==
    pc \in {"act_top", "act_read", "act_event", "flash", "cleanup"} =>
        game_start_time - cd_start = CountdownLength

\* the round is over: time is up, the fortress has fallen or no ship is left
EndCheck ==
    \/ Elapsed >= GAME_DURATION
    \/ fortress <= 0
    \/ \A s \in Ships : is_destroyed[s]

\* a step in which the controller takes the buffered input
Polled == Len(devbuf') < Len(devbuf)

\* C13: a pass of the inner loop whose round-end check is true puts no
\* MOLE_ESCAPED, MOLE_SPAWN, PLAYER_HIT or PLAYER_MISS and reads no input: it goes
\* to the clean-up, and the next event the controller puts is GAME_OVER.
C13_EndCheckLeadsToOver ==
    /\ [][(pc = "act_top" /\ pc' # "act_top" /\ running /\ EndCheck)
            => (pc' = "cleanup" /\ Appended = <<>> /\ ~Polled)]_vars
    /\ [][pc = "cleanup"
            => /\ ~Polled
               /\ Appended \in {<<>>, <<Event("GAME_OVER", score)>>}
               /\ pc' \in {"cleanup", "wait_ack"}
               /\ pc' = "wait_ack" <=> Appended # <<>>]_vars

\* the check was true with the fortress fallen before the round's time was up
C13_Witness ==
    /\ pc = "wait_ack"
    /\ running
    /\ fortress <= 0
    /\ Elapsed < GAME_DURATION
    /\ lastEv.type = "GAME_OVER"

\* C14: GAME_OVER is put only after the round-end condition has held in the
\* inner loop: the round's time was up, the fortress had fallen or no ship was
\* left at the loop's last pass.
C14_OverOnlyAfterEnd == lastEv.type = "GAME_OVER" => ended

\* C15: consuming PLAYER_HIT takes the current target ship, if there is one;
\* it takes exactly 1 from that ship's health, marks the ship destroyed exactly
\* when its health has reached 0, heals the fortress by 0.5 up to max_health,
\* and changes no other ship; without a target it changes nothing.
C15_HitConsumed ==
    /\ [][(ppc = "hit_scan" /\ ppc' = "td_store")
            => (current_ship' = TargetIndex(is_destroyed) /\ UNCHANGED battleVars)]_vars
    /\ [][(ppc = "hit_scan" /\ ppc' = "drain")
            => (TargetIndex(is_destroyed) \notin Ships /\ UNCHANGED battleVars)]_vars
    /\ [][(ppc = "td_store" /\ ppc' # ppc)
            => /\ current_health' = [current_health EXCEPT ![current_ship] = @ - 1]
               /\ UNCHANGED <<is_destroyed, fortress>>]_vars
    /\ [][(ppc \in {"td_zero", "td_set"} /\ ppc' = "heal_load")
            => /\ is_destroyed' = [is_destroyed EXCEPT
                                      ![current_ship] = (current_health[current_ship] = 0)]
               /\ UNCHANGED <<current_health, fortress>>]_vars
    /\ [][(ppc = "heal_store" /\ ppc' # ppc)
            => /\ fortress' = IF fortress + HEAL_AMOUNT < PLAYER_MAX_HEALTH
                              THEN fortress + HEAL_AMOUNT ELSE PLAYER_MAX_HEALTH
               /\ UNCHANGED <<current_health, is_destroyed>>]_vars

\* C16: consuming PLAYER_MISS or MOLE_ESCAPED takes 1 from the fortress health,
\* not below 0, exactly when a ship that is not destroyed exists and the fortress
\* health is above 0 as the event is handled; otherwise it changes nothing; it
\* never changes a ship.
C16_MissConsumed ==
    /\ [][(ppc = "miss_scan" /\ ppc' = "miss_load")
            => /\ TargetIndex(is_destroyed) \in Ships /\ fortress > 0
               /\ UNCHANGED battleVars]_vars
    /\ [][(ppc = "miss_scan" /\ ppc' = "drain")
            => /\ ~(TargetIndex(is_destroyed) \in Ships /\ fortress > 0)
               /\ UNCHANGED battleVars]_vars
    /\ [][(ppc = "miss_load" /\ ppc' # ppc) => UNCHANGED battleVars]_vars
    /\ [][(ppc = "miss_store" /\ ppc' # ppc)
            => /\ fortress' = IF fortress - ENEMY_DAMAGE > 0
                              THEN fortress - ENEMY_DAMAGE ELSE 0
               /\ UNCHANGED <<current_health, is_destroyed>>]_vars

\* the branch of the main loop that an event of type t enters
BranchOf(t) ==
    CASE t = "PLAYER_HIT" -> "hit_scan"
      [] t \in {"PLAYER_MISS", "MOLE_ESCAPED"} -> "miss_scan"
      [] OTHER -> "drain"

\* C17: the queue changes only by the controller putting events behind the ones
\* that wait, and by the main loop taking the event at the head and handling that
\* event: every event is taken at most once, in the order of the puts; the main
\* loop puts nothing and the controller takes nothing.
C17_QueueFifo ==
    [][\/ event_queue' = event_queue
       \/ /\ Len(event_queue') > Len(event_queue)
          /\ SubSeq(event_queue', 1, Len(event_queue)) = event_queue
          /\ lastEv' = event_queue'[Len(event_queue')]
          /\ UNCHANGED <<mainVars, battleVars>>
       \/ /\ event_queue # <<>>
          /\ event_queue' = Tail(event_queue)
          /\ ppc = "drain" /\ ppc' = BranchOf(Head(event_queue).type)
          /\ UNCHANGED ctlVars]_vars

\* the main loop has taken COUNTDOWN_FINISHED and handles an escape while the
\* next mole's MOLE_SPAWN and one more event wait behind it
C17_Witness ==
    /\ game_running
    /\ ppc = "miss_scan"
    /\ Len(event_queue) >= 2
    /\ event_queue[1].type = "MOLE_SPAWN"

\* C18: each frame the main loop drains the queue before it updates and draws:
\* no event that waited when the frame began still waits when the frame is
\* drawn.
C18_DrainedAtRender == undrained = 0

\* the controller positions of a pass of the inner loop behind the mole timer
ActivePass == {"act_read", "act_event", "flash"}

\* the controller positions from the top of run() to the head of the inner loop
BeforeFirstSpawn == {"loop_top", "reset_health", "reset_destroyed", "reset_player",
                     "setup", "wait_start", "start_check", "countdown", "act_top"}

\* C19: active_mole_light_index is None only before the round's first spawn
\* (start screen, countdown, head of the first pass); in every pass of the inner
\* loop, at the input read in particular, it is one of the positions 0..8, so
\* "self.active_mole_light_index is not None" never rejects a press.
C19_TargetSetInActive ==
    /\ pc \in ActivePass => active_mole_light_index \in 0..(NUM_LIGHTS - 1)
    /\ (running /\ active_mole_light_index = None) => pc \in BeforeFirstSpawn
    /\ (pc = "act_event" /\ batch # <<>>)
           => (Qualifies(Head(batch))
                  <=> Head(batch).value = 1 /\ Head(batch).code \in DOMAIN KEY_TO_LIGHT_INDEX)

\* the controller is about to read a button-down while a mole is lit
C19_Witness ==
    /\ pc = "act_read"
    /\ is_available
    /\ HasAnyKeyDown(devbuf)
    /\ active_mole_light_index \in 0..(NUM_LIGHTS - 1)

\* the positions of the panel with a pixel that is not off
LitPositions(px) ==
    {i \in 0..(NUM_LIGHTS - 1) :
        \E p \in get_pixel_indices_for_light(i) : px[p + 1] # "off"}

\* C20: with the strip present, in the inner loop outside the penalty flash at
\* most one position is lit, and once a mole has been spawned the lit position
\* is the position of the active mole.
C20_OneLit ==
    (is_available /\ running /\ pc \in {"act_top", "act_read", "act_event"}) =>
        /\ Cardinality(LitPositions(shown)) <= 1
        /\ active_mole_light_index # None
               => LitPositions(shown) = {active_mole_light_index}

\* the mole spawned after a hit and a penalty flash is the one position lit
C20_Witness ==
    /\ is_available
    /\ pc = "act_read"
    /\ nHit >= 1
    /\ nMiss >= 1
    /\ LitPositions(shown) = {active_mole_light_index}

\* C21: the step on which reset_game_for_new_round returns at the top of a
\* round (its last write, the fortress health) leaves every ship with
\* current_health = max_health and not destroyed and the fortress health at
\* max_health, whatever the previous round left behind.
C21_ResetRestores ==
    [][(pc = "reset_player" /\ pc' = "setup")
          => (FleetUntouched /\ fortress = PLAYER_MAX_HEALTH)']_vars

\* the events put so far, from the last one of the earlier steps on
Puts == <<lastEv>> \o Appended

TargetTypes == {"MOLE_SPAWN", "MOLE_ESCAPED", "PLAYER_HIT", "PLAYER_MISS"}

\* an event of type b may be put right after one of type a
RoundOrder(a, b) ==
    CASE b = "START_SCREEN" -> a \in {"none", "GAME_OVER"}
      [] b = "COUNTDOWN_FINISHED" -> a = "START_SCREEN"
      [] b \in TargetTypes -> a \in {"COUNTDOWN_FINISHED"} \cup TargetTypes
      [] b = "GAME_OVER" -> a \in {"COUNTDOWN_FINISHED"} \cup TargetTypes
      [] OTHER -> FALSE

\* every event a step puts is in its place in the round's order
InRoundOrder == \A j \in 1..Len(Appended) : RoundOrder(Puts[j].type, Puts[j + 1].type)

\* the step that follows reset_game_for_new_round puts the round's opening
\* events, the first round's at the start and a later round's once the
\* acknowledgement wait has counted its key presses
OpeningAfterReset(n) ==
    /\ (pc = "setup" /\ pc' = "wait_start") => Len(Appended) = n
    /\ \A j \in 1..Len(Appended) :
          Appended[j].type = "START_SCREEN"
             => /\ pc = "setup"
                /\ lastEv.type = "GAME_OVER" => keys_pressed >= keys_needed

C23_StartOnlyOnKey5 ==
    /\ [][(pc = "wait_start" /\ pc' # "wait_start")
            => \/ pc' = "start_check" /\ running /\ HasKeyDown(devbuf, KEY_5)
               \/ pc' = "exited" /\ ~running]_vars
    /\ [][pc = "wait_start"
            => (Appended = <<>> /\ UNCHANGED <<score, active_mole_light_index, lastEv>>)]_vars
    /\ [](polled = "ignored" => (pc \in {"wait_start", "exited"} /\ lastEv.type = "START_SCREEN"))

\* the controller has read a batch without a start press and still waits
C23_Witness ==
    /\ pc = "wait_start"
    /\ running
    /\ polled = "ignored"
    /\ devbuf = <<>>

\* C24: a button event that arrives during the countdown is dropped: when the
\* player touches the buttons during the countdown only, no PLAYER_HIT and no
\* PLAYER_MISS is put in the round and the score stays 0.
C24_CountdownPressDropped ==
    /\ nHit = 0
    /\ nMiss = 0
    /\ score = 0
    /\ lastEv.type \notin {"PLAYER_HIT", "PLAYER_MISS"}

\* C25: once COUNTDOWN_FINISHED has been put, GAME_OVER is eventually put,
\* whatever the player presses and whether the main loop takes events from the
\* queue or leaves them there.
C25_OverFollows ==
    (lastEv.type \in {"COUNTDOWN_FINISHED"} \cup TargetTypes) ~> (lastEv.type = "GAME_OVER")

\* GAME_OVER has been put while the player's press waits in the device and
\* the main loop has taken nothing from the queue
C25_Witness ==
    /\ mpc = "flip"
    /\ lastEv.type = "GAME_OVER"
    /\ devbuf # <<>>
    /\ nEsc >= 2
    /\ event_queue[1].type = "START_SCREEN"

\* the controller is at a step of the round that waits for no key
Working == pc \in {"start_check", "countdown", "act_top", "act_read", "cleanup"}

\* C26: under a main loop that never takes an event, the controller always has
\* a step to take outside its two waits for keys, the queue only grows (every
\* event put stays behind the earlier ones), the fleet and the fortress keep
\* their reset values, and the inner loop is left only once the round duration
\* has elapsed, GAME_OVER being put behind the round's other events.
C26_StalledConsumer ==
    /\ [](Working => ENABLED CtlRound(MaxRounds))
    /\ [][/\ Len(event_queue') >= Len(event_queue)
          /\ SubSeq(event_queue', 1, Len(event_queue)) = event_queue]_vars
    /\ [](FleetUntouched /\ fortress = PLAYER_MAX_HEALTH)
    /\ [](pc \in {"cleanup", "wait_ack"} => Elapsed >= GAME_DURATION)
    /\ [](pc = "wait_ack" => event_queue[Len(event_queue)].type = "GAME_OVER")

\* the round has timed out with all its events in the queue, two escapes
\* among them
C26_Witness ==
    /\ pc = "wait_ack"
    /\ nEsc >= 2
    /\ Len(event_queue) >= 8
    /\ event_queue[1].type = "START_SCREEN"
    /\ event_queue[Len(event_queue)].type = "GAME_OVER"

\* the phase of the round the controller is in
Phase(p) ==
    CASE p = "wait_start" -> "AWAITING_START"
      [] p \in {"act_top", "act_read", "act_event", "flash"} -> "ACTIVE"
      [] p = "wait_ack" -> "AWAITING_ACK"
      [] OTHER -> p

\* the controller's read of the device fails in this step
FailedPoll == polled' = "failed" /\ (polled # "failed" \/ pc' # pc)

\* C27: a read of the device that fails in the start wait, in the inner game
\* loop or in the acknowledgement wait is passed over: the step leaves the
\* phase, the score, the active target, the acknowledgement count and the
\* event queue as they were, running stays True, and the controller is back
\* at the head of the loop it was in.
C27_FailedPollIgnored ==
    /\ [][FailedPoll
            => /\ Phase(pc) \in {"AWAITING_START", "ACTIVE", "AWAITING_ACK"}
               /\ Phase(pc') = Phase(pc)
               /\ running'
               /\ UNCHANGED <<score, active_mole_light_index, last_mole_time,
                              keys_pressed, event_queue, lastEv>>]_vars
    /\ [](polled = "failed" => pc \in {"wait_start", "act_top", "wait_ack"})

\* a read of the inner game loop has failed with a mole lit and the player's
\* press still in the device
C27_Witness ==
    /\ pc = "act_top"
    /\ polled = "failed"
    /\ active_mole_light_index # None
    /\ lastEv.type = "MOLE_SPAWN"
    /\ HasAnyKeyDown(devbuf)

\* C28: for every position i, light_up_mole and turn_off_mole write the 4
\* pixels 4i..4i+3 of the strip (green, off) and leave every other pixel as it
\* was; the ranges of distinct positions are disjoint; applying either a
\* second time changes nothing, and turn_off_mole changes nothing at a
\* position that is off already or when there is no position.
C28_BlockOnly ==
    /\ \A i \in 0..(NUM_LIGHTS - 1) :
          LET blk == get_pixel_indices_for_light(i)
              lit == light_up_mole(pixels, i)
              off == turn_off_mole(pixels, i)
          IN  /\ blk = {PIXELS_PER_BUTTON * i + k : k \in 0..(PIXELS_PER_BUTTON - 1)}
              /\ blk \subseteq 0..(NUM_PIXELS - 1)
              /\ \A j \in 0..(NUM_LIGHTS - 1) :
                    j # i => blk \cap get_pixel_indices_for_light(j) = {}
              /\ \A p \in 1..NUM_PIXELS :
                    (p - 1) \notin blk => (lit[p] = pixels[p] /\ off[p] = pixels[p])
              /\ is_available
                    => \A p \in blk : lit[p + 1] = "green" /\ off[p + 1] = "off"
              /\ light_up_mole(lit, i) = lit
              /\ turn_off_mole(off, i) = off
              /\ (\A p \in blk : pixels[p + 1] = "off") => off = pixels
    /\ turn_off_mole(pixels, None) = pixels

\* after a flash of the whole strip, the first and the last position are lit
\* and the one in the middle is off
C28_Witness ==
    /\ is_available
    /\ \A p \in get_pixel_indices_for_light(0) \cup get_pixel_indices_for_light(NUM_LIGHTS - 1) :
          pixels[p + 1] = "green"
    /\ \A p \in get_pixel_indices_for_light(4) : pixels[p + 1] = "off"
    /\ pixels[PIXELS_PER_BUTTON + 1] = "red"

\* C29: MOLE_ESCAPED is put only at the head of a pass of the inner loop, when
\* a target is active whose MOLE_SPAWN is the latest event put (no hit or miss
\* since) and which was spawned strictly more than MOLE_DURATION ago; the same
\* step puts right behind it the MOLE_SPAWN of the new target, an index in
\* 0..8, and sets last_mole_time to the time of the spawn.
C29_EscapeThenSpawn ==
    [][\A j \in 1..Len(Appended) :
          Appended[j].type = "MOLE_ESCAPED"
             => (/\ pc = "act_top"
                 /\ j = 1
                 /\ Len(Appended) = 2
                 /\ active_mole_light_index \in 0..(NUM_LIGHTS - 1)
                 /\ lastEv = Event("MOLE_SPAWN", active_mole_light_index)
                 /\ now - last_mole_time > MOLE_DURATION
                 /\ active_mole_light_index' \in 0..(NUM_LIGHTS - 1)
                 /\ Appended[2] = Event("MOLE_SPAWN", active_mole_light_index')
                 /\ last_mole_time' = now)]_vars

\* a mole has escaped and the next one has just been lit
C29_Witness ==
    /\ pc = "act_read"
    /\ nEsc >= 1
    /\ lastEv = Event("MOLE_SPAWN", active_mole_light_index)
    /\ last_mole_time = now
    /\ now > game_start_time

\* the input event is a button-down of one of the 9 mapped keys
MappedDown(e) == e.value = 1 /\ e.code \in DOMAIN KEY_TO_LIGHT_INDEX

\* C30: the events of one read are handled in the order the device returned
\* them, one at a time from the head of the batch; a button-down of a mapped
\* key is compared with the target active at that moment and puts exactly one
\* PLAYER_HIT (same position) or PLAYER_MISS (another position) followed by the
\* MOLE_SPAWN of the new target; any other event puts nothing and changes
\* neither score nor target; PLAYER_HIT and PLAYER_MISS are put in no other way.
C30_BatchInOrder ==
    /\ [][(pc = "act_read" /\ pc' = "act_event") => (batch' = devbuf /\ devbuf' = <<>>)]_vars
    /\ [][(pc \in {"act_event", "flash"} /\ batch' # batch)
            => /\ batch' = Tail(batch)
               /\ IF MappedDown(Head(batch))
                  THEN /\ Len(Appended) = 2
                       /\ Appended[1].type =
                             (IF KEY_TO_LIGHT_INDEX[Head(batch).code] = active_mole_light_index
                              THEN "PLAYER_HIT" ELSE "PLAYER_MISS")
                       /\ Appended[1].val = score'
                       /\ Appended[2] = Event("MOLE_SPAWN", active_mole_light_index')
                  ELSE /\ Appended = <<>>
                       /\ UNCHANGED <<score, active_mole_light_index, pixels>>]_vars
    /\ [][\A j \in 1..Len(Appended) :
             Appended[j].type \in {"PLAYER_HIT", "PLAYER_MISS"}
                => (j = 1 /\ pc \in {"act_event", "flash"} /\ batch' = Tail(batch))]_vars

\* of two presses returned by one read, the first has been answered with its
\* outcome and a new mole, and the second, a mapped button-down, is next
C30_Witness ==
    /\ pc = "act_event"
    /\ npress = 2
    /\ nHit + nMiss = 1
    /\ Len(batch) = 1
    /\ MappedDown(Head(batch))
    /\ lastEv = Event("MOLE_SPAWN", active_mole_light_index)

\* a write of reset_game_for_new_round
ResetWrite == pc \in {"reset_health", "reset_destroyed", "reset_player"} /\ pc' # pc

\* a step of the main loop inside the handling of an event it has taken
Consuming == ppc # "drain" /\ UNCHANGED <<ctlVars, event_queue>>

\* C31: every step that changes a ship's health or destroyed flag or the
\* fortress health is either a write of the round-start reset or a step of the
\* main loop handling an event it has taken from the queue; every other step of
\* the controller, from the start screen to the acknowledgement wait, leaves
\* the battle state as it was.
C31_ControllerOnlyResets ==
    [][battleVars' # battleVars => (ResetWrite \/ Consuming)]_vars

\* inside the inner game loop, the main loop has lowered a ship's health and
\* the fortress health
C31_Witness ==
    /\ pc = "act_read"
    /\ \E s \in Ships : current_health[s] < SHIP_DATA[s]
    /\ fortress < PLAYER_MAX_HEALTH

\* C32: when the inner game loop of a round begins (its first pass, before the
\* first mole is spawned), every ship is at max_health and not destroyed and
\* the fortress is at max_health: no event of the previous round has been
\* applied after the round-start reset.
C32_FullHealthAtActive ==
    (pc = "act_top" /\ active_mole_light_index = None /\ running)
        => (FleetUntouched /\ fortress = PLAYER_MAX_HEALTH)

\* C33: once the fortress health is 0 it stays 0 until the round-start reset
\* writes it: no other step takes it from 0 to another value.
C33_ZeroStaysZero ==
    [][(fortress = 0 /\ fortress' # 0) => ResetWrite]_vars

\* C34: in a round that began with the queue drained, once the main loop has
\* set game_over by its win/loss check (game_running still set), no step of
\* the inner game loop puts PLAYER_HIT or PLAYER_MISS.
C34_NoOutcomeAfterGameOver ==
    [][(fresh /\ game_running /\ game_over /\ Phase(pc) = "ACTIVE")
          => \A j \in 1..Len(Appended) :
                 Appended[j].type \notin {"PLAYER_HIT", "PLAYER_MISS"}]_vars

\* C35: a step of the inner game loop that ends at an elapsed time (from
\* game_start_time) of GAME_DURATION or more puts no PLAYER_HIT, PLAYER_MISS
\* or MOLE_SPAWN and leaves the score as it is.
C35_NothingPastDuration ==
    [][(Phase(pc) = "ACTIVE" /\ now' - game_start_time >= GAME_DURATION)
          => /\ \A j \in 1..Len(Appended) :
                    Appended[j].type \notin {"PLAYER_HIT", "PLAYER_MISS", "MOLE_SPAWN"}
             /\ score' = score]_vars

\* C36: every MOLE_ESCAPED, PLAYER_HIT and PLAYER_MISS is put with a MOLE_SPAWN
\* right behind it; the MOLE_SPAWN events put in a round are none when no
\* outcome event was put before the round ended at once, and otherwise one
\* more than its outcome events; and the event put right before GAME_OVER is
\* MOLE_SPAWN or COUNTDOWN_FINISHED.
C36_SpawnAfterOutcome ==
    /\ [](nSpawn = 0 => nHit + nMiss + nEsc = 0)
    /\ [](nSpawn # 0 => nSpawn = nHit + nMiss + nEsc + 1)
    /\ [][\A j \in 1..Len(Appended) :
             /\ Appended[j].type \in OutcomeTypes
                   => (j < Len(Appended) /\ Appended[j + 1].type = "MOLE_SPAWN")
             /\ Appended[j].type = "GAME_OVER"
                   => Puts[j].type \in {"MOLE_SPAWN", "COUNTDOWN_FINISHED"}]_vars

\* a finished round with a hit, a miss and an escape, and four MOLE_SPAWN events
C36_Witness ==
    /\ pc = "wait_ack"
    /\ lastEv.type = "GAME_OVER"
    /\ nHit = 1 /\ nMiss = 1 /\ nEsc >= 1
    /\ nSpawn = nEsc + 3

\* C37: GAME_OVER carries the score carried by the round's last PLAYER_HIT or
\* PLAYER_MISS, and 0 when the round has none; every PLAYER_HIT and PLAYER_MISS
\* carries the score as it is after the press; a step that puts MOLE_ESCAPED
\* or MOLE_SPAWN and neither PLAYER_HIT nor PLAYER_MISS leaves the score as it is.
C37_OverCarriesLastScore ==
    /\ [](lastEv.type = "GAME_OVER" => lastEv.val = carried)
    /\ [](nHit + nMiss = 0 => carried = 0)
    /\ [][\A j \in 1..Len(Appended) :
             /\ Appended[j].type \in {"PLAYER_HIT", "PLAYER_MISS"}
                   => (Appended[j].val = score' /\ carried' = score')
             /\ Appended[j].type = "GAME_OVER" => Appended[j].val = carried]_vars
    /\ [][((\E j \in 1..Len(Appended) : Appended[j].type \in {"MOLE_ESCAPED", "MOLE_SPAWN"})
            /\ \A j \in 1..Len(Appended) :
                   Appended[j].type \notin {"PLAYER_HIT", "PLAYER_MISS"})
             => score' = score]_vars

\* a finished round with an escape whose GAME_OVER carries the 0.5 left by a
\* hit and a miss
C37_Witness ==
    /\ pc = "wait_ack"
    /\ lastEv = Event("GAME_OVER", HIT_SCORE - MISS_PENALTY)
    /\ carried = HIT_SCORE - MISS_PENALTY
    /\ nHit = 1 /\ nMiss = 1 /\ nEsc >= 1

\* the main loop is inside take_damage
InTakeDamage == ppc \in {"td_store", "td_zero", "td_set"}

\* the controller is inside reset_game_for_new_round
InReset == pc \in {"reset_health", "reset_destroyed", "reset_player"}

\* C38: whenever neither take_damage nor the round-start reset is part-way
\* through, a ship is destroyed exactly when its current_health is 0 or less,
\* and the current target, when there is one, has current_health of 1 or more.
C38_DestroyedIffNoHealth ==
    (~InTakeDamage /\ ~InReset)
        => /\ \A s \in Ships : is_destroyed[s] <=> current_health[s] <= 0
           /\ get_current_target_ship # NoShip
                 => current_health[get_current_target_ship] >= 1

====
